---- MODULE Spec2Model ----
(***************************************************************************)
(* Model of the Ollama provider client (package provider): the streaming   *)
(* call ollamaClient.stream, its background goroutine, the unbuffered      *)
(* event channel, the HTTP response body it reads, the call context and    *)
(* the consumer of the channel.                                            *)
(*                                                                         *)
(* Byte strings are TLA+ strings; a line of the body is the JSON text of   *)
(* one fragment followed by the delimiter "\n".                            *)
(***************************************************************************)
EXTENDS Integers, Sequences, FiniteSets, TLC

\* Largest number of newline-terminated lines the backend writes in a call.
MaxLines == 2

(***************************************************************************)
(* Wire data                                                               *)
(***************************************************************************)

\* net/http's http.StatusOK.
StatusOK == 200

\* Statuses the backend answers with.
Statuses == {200, 201, 500}

\* message.FinishReasonEndTurn.
FinishReasonEndTurn == "end_turn"

\* The zero value of ollamaResponse (only the fields the client reads).
ZeroResponse == [Content |-> "", Done |-> FALSE, Error |-> "", PromptTokens |-> 0, CompletionTokens |-> 0]

\* JSON texts (without delimiter) the backend can write on one line.  The
\* empty text is a blank keep-alive line; "}{" is not JSON.
FragA == "{\"message\":{\"content\":\"a\"}}"
FragB == "{\"message\":{\"content\":\"b\"}}"
FragEmpty == "{\"message\":{\"content\":\"\"}}"
FragDone == "{\"message\":{\"content\":\"\"},\"done\":true,\"usage\":{\"prompt_tokens\":2,\"completion_tokens\":1}}"
FragADone == "{\"message\":{\"content\":\"a\"},\"done\":true,\"usage\":{\"prompt_tokens\":3,\"completion_tokens\":1}}"
FragErr == "{\"message\":{\"content\":\"a\"},\"error\":\"boom\"}"
FragErrDone == "{\"message\":{\"content\":\"b\"},\"done\":true,\"error\":\"boom\",\"usage\":{\"prompt_tokens\":2,\"completion_tokens\":1}}"
Blank == ""
Garbage == "}{"

WellFormed == {FragA, FragB, FragEmpty, FragDone, FragADone, FragErr}
Texts == WellFormed \cup {Blank, Garbage}

\* Bodies the backend answers a synchronous call with.
SyncTexts == Texts \cup {FragErrDone}

\* What encoding/json decodes a well-formed text into.
Decoded(t) ==
  CASE t = FragA -> [ZeroResponse EXCEPT !.Content = "a"]
    [] t = FragB -> [ZeroResponse EXCEPT !.Content = "b"]
    [] t = FragEmpty -> ZeroResponse
    [] t = FragDone -> [ZeroResponse EXCEPT !.Done = TRUE, !.PromptTokens = 2, !.CompletionTokens = 1]
    [] t = FragADone -> [ZeroResponse EXCEPT !.Content = "a", !.Done = TRUE, !.PromptTokens = 3, !.CompletionTokens = 1]
    [] t = FragErr -> [ZeroResponse EXCEPT !.Content = "a", !.Error = "boom"]
    [] t = FragErrDone -> [ZeroResponse EXCEPT !.Content = "b", !.Done = TRUE, !.Error = "boom",
                                               !.PromptTokens = 2, !.CompletionTokens = 1]

\* json.Unmarshal(line, &ollamaResp): JSON ignores the trailing newline; an
\* empty or whitespace-only input and a malformed one are errors.
Unmarshal(line) ==
  IF \E t \in WellFormed \cup {FragErrDone} : line = t \/ line = t \o "\n"
    THEN [ok |-> TRUE,
          resp |-> Decoded(CHOOSE t \in WellFormed \cup {FragErrDone} : line = t \/ line = t \o "\n")]
    ELSE [ok |-> FALSE, resp |-> ZeroResponse]

(***************************************************************************)
(* Provider events                                                         *)
(***************************************************************************)

NoEvent == [Type |-> "none", Content |-> "", InputTokens |-> 0, OutputTokens |-> 0, FinishReason |-> "", Error |-> ""]

EventContentDelta(content) == [NoEvent EXCEPT !.Type = "content_delta", !.Content = content]

EventComplete(content, input, output) ==
  [NoEvent EXCEPT !.Type = "complete", !.Content = content, !.InputTokens = input,
                  !.OutputTokens = output, !.FinishReason = FinishReasonEndTurn]

EventError(msg) == [NoEvent EXCEPT !.Type = "error", !.Error = msg]

IsTerminal(e) == e.Type \in {"complete", "error"}

(***************************************************************************)
(* Conversation turns and the Message Translator                           *)
(***************************************************************************)

\* Longest conversation history translated.
MaxTurns == 2

\* A message.Message as convertMessages sees it: its role, Content().String(),
\* ToolCalls() and ToolResults().
Message(role, text, calls, results) ==
  [Role |-> role, Text |-> text, ToolCalls |-> calls, ToolResults |-> results]

CallLs == [Name |-> "ls", Input |-> "{\"path\":\".\"}"]
CallCat == [Name |-> "cat", Input |-> "{\"file\":\"x\"}"]
ResultLs == [ToolCallID |-> "call_1", Content |-> "x y"]
ResultCat == [ToolCallID |-> "call_2", Content |-> "hello"]

UserHi == Message("user", "hi", <<>>, <<>>)
AssistantText == Message("assistant", "ok", <<>>, <<>>)
AssistantCalls == Message("assistant", "", <<CallLs, CallCat>>, <<>>)
AssistantBoth == Message("assistant", "ok", <<CallCat>>, <<>>)
AssistantEmpty == Message("assistant", "", <<>>, <<>>)
ToolNone == Message("tool", "", <<>>, <<>>)
ToolTwo == Message("tool", "", <<>>, <<ResultLs, ResultCat>>)
SystemTurn == Message("system", "be brief", <<>>, <<>>)
OtherTurn == Message("developer", "x", <<>>, <<>>)

Turns == {UserHi, AssistantText, AssistantCalls, AssistantBoth, AssistantEmpty,
          ToolNone, ToolTwo, SystemTurn, OtherTurn}

RECURSIVE Histories(_)
\* The histories of at most n turns.
Histories(n) ==
  IF n = 0 THEN {<<>>}
  ELSE Histories(n - 1) \cup {Append(h, t) : h \in {g \in Histories(n - 1) : Len(g) = n - 1}, t \in Turns}

\* An ollamaMessage.
OllamaMessage(role, content) == [Role |-> role, Content |-> content]

RECURSIVE ToolCallsText(_, _)
\* The loop over msg.ToolCalls() that builds toolCallsText.
ToolCallsText(text, calls) ==
  IF calls = <<>> THEN text
  ELSE ToolCallsText(text \o "- Tool: " \o Head(calls).Name \o "\n  Arguments: " \o Head(calls).Input \o "\n",
                     Tail(calls))

\* case message.User.
UserCase(out, msg) == Append(out, OllamaMessage("user", msg.Text))

\* AssistantCase with the tool calls looked at only when there is no text.
AssistantCase_ElseIf(out, msg) ==
  IF msg.Text # ""
    THEN Append(out, OllamaMessage("assistant", msg.Text))
    ELSE IF Len(msg.ToolCalls) > 0
           THEN Append(out, OllamaMessage("assistant",
                       ToolCallsText("I need to use the following tools:\n", msg.ToolCalls)))
           ELSE out

\* case message.Assistant.
AssistantCase(out, msg) ==
  LET withText == IF msg.Text # ""
                    THEN Append(out, OllamaMessage("assistant", msg.Text))
                    ELSE out
  IN IF Len(msg.ToolCalls) > 0
       THEN Append(withText, OllamaMessage("assistant",
                   ToolCallsText("I need to use the following tools:\n", msg.ToolCalls)))
       ELSE withText

RECURSIVE ToolCase_ToolRole(_, _)
\* ToolCase with the results sent under a tool role.
ToolCase_ToolRole(out, results) ==
  IF results = <<>> THEN out
  ELSE ToolCase_ToolRole(Append(out, OllamaMessage("tool",
           "Tool result for " \o Head(results).ToolCallID \o ": " \o Head(results).Content)),
         Tail(results))

RECURSIVE ToolCase(_, _)
\* case message.Tool: the loop over msg.ToolResults().
ToolCase(out, results) ==
  IF results = <<>> THEN out
  ELSE ToolCase(Append(out, OllamaMessage("user",
           "Tool result for " \o Head(results).ToolCallID \o ": " \o Head(results).Content)),
         Tail(results))

\* SwitchRole with system turns of the history passed through.
SwitchRole_PassesSystem(out, msg) ==
  CASE msg.Role = "user" -> UserCase(out, msg)
    [] msg.Role = "assistant" -> AssistantCase(out, msg)
    [] msg.Role = "tool" -> ToolCase(out, msg.ToolResults)
    [] msg.Role = "system" -> Append(out, OllamaMessage("system", msg.Text))
    [] OTHER -> out

\* The switch on msg.Role; a role without a case adds nothing.
SwitchRole(out, msg) ==
  CASE msg.Role = "user" -> UserCase(out, msg)
    [] msg.Role = "assistant" -> AssistantCase(out, msg)
    [] msg.Role = "tool" -> ToolCase(out, msg.ToolResults)
    [] OTHER -> out

RECURSIVE RangeMessages_NewestFirst(_, _)
\* RangeMessages walking the history from its end.
RangeMessages_NewestFirst(out, msgs) ==
  IF msgs = <<>> THEN out
  ELSE RangeMessages_NewestFirst(SwitchRole(out, msgs[Len(msgs)]), SubSeq(msgs, 1, Len(msgs) - 1))

RECURSIVE RangeMessages(_, _)
\* for _, msg := range messages.
RangeMessages(out, msgs) ==
  IF msgs = <<>> THEN out
  ELSE RangeMessages(SwitchRole(out, Head(msgs)), Tail(msgs))

\* ollamaClient.convertMessages, with o.providerOptions.systemMessage.
convertMessages(system, msgs) ==
  RangeMessages(IF system # "" THEN <<OllamaMessage("system", system)>> ELSE <<>>, msgs)

(***************************************************************************)
(* ollamaClient.send                                                       *)
(***************************************************************************)

\* A nil *ProviderResponse.
NilResponse == [Nil |-> TRUE, Content |-> "", InputTokens |-> 0, OutputTokens |-> 0, FinishReason |-> ""]

\* &ProviderResponse{...}.
ProviderResponse(content, input, output) ==
  [Nil |-> FALSE, Content |-> content, InputTokens |-> input, OutputTokens |-> output,
   FinishReason |-> FinishReasonEndTurn]

\* What send returns; the empty string is the nil error.
Failure(msg) == [Response |-> NilResponse, Err |-> msg]
Success(resp) == [Response |-> resp, Err |-> ""]

\* What happened to a synchronous call: whether the request could be encoded
\* and built, whether Do returned a response, its status and body, and
\* whether io.ReadAll read the body to its end.
Answer(marshalOK, urlOK, doOK, code, text, readOK) ==
  [marshalOK |-> marshalOK, urlOK |-> urlOK, doOK |-> doOK, status |-> code, body |-> text, readOK |-> readOK]

NoAnswer == Answer(TRUE, TRUE, FALSE, 0, "", FALSE)

\* send without the check of the error field.
send_IgnoresErrorField(in) ==
  LET r == Unmarshal(in.body) IN
  IF ~in.marshalOK THEN Failure("failed to marshal request: unsupported value")
  ELSE IF ~in.urlOK THEN Failure("failed to create request: parse error")
  ELSE IF ~in.doOK THEN Failure("failed to send request: no response")
  ELSE IF ~in.readOK THEN Failure("failed to read response: connection reset")
  ELSE IF in.status # StatusOK THEN Failure("ollama API error: " \o in.body)
  ELSE IF ~r.ok THEN Failure("failed to unmarshal response: invalid JSON")
  ELSE Success(ProviderResponse(r.resp.Content, r.resp.PromptTokens, r.resp.CompletionTokens))

\* send with the two usage counters exchanged.
send_SwapsTokens(in) ==
  LET r == Unmarshal(in.body) IN
  IF ~in.marshalOK THEN Failure("failed to marshal request: unsupported value")
  ELSE IF ~in.urlOK THEN Failure("failed to create request: parse error")
  ELSE IF ~in.doOK THEN Failure("failed to send request: no response")
  ELSE IF ~in.readOK THEN Failure("failed to read response: connection reset")
  ELSE IF in.status # StatusOK THEN Failure("ollama API error: " \o in.body)
  ELSE IF ~r.ok THEN Failure("failed to unmarshal response: invalid JSON")
  ELSE IF r.resp.Error # "" THEN Failure("ollama API error: " \o r.resp.Error)
  ELSE Success(ProviderResponse(r.resp.Content, r.resp.CompletionTokens, r.resp.PromptTokens))

\* The return value of send, from the request to the last return.
send(in) ==
  LET r == Unmarshal(in.body) IN
  IF ~in.marshalOK THEN Failure("failed to marshal request: unsupported value")
  ELSE IF ~in.urlOK THEN Failure("failed to create request: parse error")
  ELSE IF ~in.doOK THEN Failure("failed to send request: no response")
  ELSE IF ~in.readOK THEN Failure("failed to read response: connection reset")
  ELSE IF in.status # StatusOK THEN Failure("ollama API error: " \o in.body)
  ELSE IF ~r.ok THEN Failure("failed to unmarshal response: invalid JSON")
  ELSE IF r.resp.Error # "" THEN Failure("ollama API error: " \o r.resp.Error)
  ELSE Success(ProviderResponse(r.resp.Content, r.resp.PromptTokens, r.resp.CompletionTokens))

(***************************************************************************)
(* State                                                                   *)
(***************************************************************************)

VARIABLES
  pc,          \* position of the call / of the background goroutine
  pending,     \* event the goroutine is blocked sending on eventChan
  after,       \* where the goroutine continues once the send is received
  cur,         \* ollamaResp of the current loop iteration
  fullContent, \* accumulated content
  pos,         \* lines the bufio.Reader has handed to the loop
  status,      \* resp.StatusCode, 0 before a response exists
  respBody,    \* "none", "open" or "closed": resp.Body
  body,        \* newline-terminated lines the backend has written so far
  partial,     \* bytes written after the last newline (no delimiter yet)
  ended,       \* "open", "eof" or "err": how the body ended, if it has
  chanBuf,     \* contents of a buffered eventChan (early failure paths)
  chanClosed,  \* close(eventChan) happened
  received,    \* events the consumer has received, in order
  cancelled,   \* ctx is done
  cancelAt,    \* what the goroutine was doing when ctx was cancelled
  stopped,     \* the consumer no longer receives
  messages,       \* the conversation history passed to the call
  systemMessage,  \* providerOptions.systemMessage
  ollamaMessages, \* what convertMessages returned
  sendIn,         \* what the backend answered to a synchronous call
  sendOut         \* what send returned

vars == <<pc, pending, after, cur, fullContent, pos, status, respBody, body, partial, ended,
          chanBuf, chanClosed, received, cancelled, cancelAt, stopped,
          messages, systemMessage, ollamaMessages, sendIn, sendOut>>

taskVars == <<pc, pending, after, cur, fullContent, pos, status, respBody, chanBuf, chanClosed>>
backendVars == <<body, partial, ended>>
envVars == <<cancelled, cancelAt, stopped>>
callVars == <<messages, systemMessage, ollamaMessages, sendIn, sendOut>>

\* A constructed client on which no call has been made.
Idle ==
  /\ pc = "idle"
  /\ pending = NoEvent
  /\ after = "return"
  /\ cur = ZeroResponse
  /\ fullContent = ""
  /\ pos = 0
  /\ status = 0
  /\ respBody = "none"
  /\ body = <<>>
  /\ partial = ""
  /\ ended = "open"
  /\ chanBuf = <<>>
  /\ chanClosed = FALSE
  /\ received = <<>>
  /\ cancelled = FALSE
  /\ cancelAt = "none"
  /\ stopped = FALSE
  /\ ollamaMessages = <<>>
  /\ sendIn = NoAnswer
  /\ sendOut = Failure("")

\* The client with the conversation of one user turn and no system message.
Init ==
  /\ Idle
  /\ messages = <<UserHi>>
  /\ systemMessage = ""

\* The client with any history and an empty or non-empty system message.
ConvInit ==
  /\ Idle
  /\ messages \in Histories(MaxTurns)
  /\ systemMessage \in {"", "be terse"}

(***************************************************************************)
(* The backend: writes the response body                                   *)
(***************************************************************************)

\* The backend writes one complete line.  Cancelling the context tears the
\* connection down, so nothing arrives after it.
BackendWriteLine ==
  /\ respBody = "open" /\ ended = "open" /\ partial = "" /\ ~cancelled
  /\ Len(body) < MaxLines
  /\ \E t \in Texts : body' = Append(body, t \o "\n")
  /\ UNCHANGED <<taskVars, partial, ended, received, envVars, callVars>>

\* The backend writes bytes without a delimiter; the body then ends.
BackendWritePartial ==
  /\ respBody = "open" /\ ended = "open" /\ partial = "" /\ ~cancelled
  /\ \E t \in Texts \ {Blank} : partial' = t
  /\ UNCHANGED <<taskVars, body, ended, received, envVars, callVars>>

\* The body ends: cleanly (io.EOF) or with a transport failure.
BackendEnd ==
  /\ respBody = "open" /\ ended = "open" /\ ~cancelled
  /\ \E how \in {"eof", "err"} : ended' = how
  /\ UNCHANGED <<taskVars, body, partial, received, envVars, callVars>>

(***************************************************************************)
(* ollamaClient.stream                                                     *)
(***************************************************************************)

\* The translation alone, as both calls start with it.
ConvertMessages ==
  /\ pc = "idle"
  /\ ollamaMessages' = convertMessages(systemMessage, messages)
  /\ pc' = "converted"
  /\ UNCHANGED <<pending, after, cur, fullContent, pos, status, respBody, chanBuf, chanClosed>>
  /\ UNCHANGED <<backendVars, received, envVars, messages, systemMessage, sendIn, sendOut>>

\* A whole synchronous call: send blocks its caller from the translation to
\* its return.  A context cancelled before the call fails the dispatch; one
\* cancelled during it fails the dispatch or the read.
SendSync ==
  /\ pc = "idle"
  /\ ollamaMessages' = convertMessages(systemMessage, messages)
  /\ \E marshalOK \in BOOLEAN, urlOK \in BOOLEAN, doOK \in BOOLEAN, readOK \in BOOLEAN,
        code \in Statuses, text \in SyncTexts :
       /\ cancelled => ~doOK
       /\ sendIn' = IF marshalOK /\ urlOK /\ doOK
                      THEN Answer(TRUE, TRUE, TRUE, code, text, readOK)
                      ELSE Answer(marshalOK, marshalOK /\ urlOK, FALSE, 0, "", FALSE)
       /\ sendOut' = send(sendIn')
  /\ pc' = "returned"
  /\ UNCHANGED <<pending, after, cur, fullContent, pos, status, respBody, chanBuf, chanClosed>>
  /\ UNCHANGED <<backendVars, received, envVars, messages, systemMessage>>

\* stream() up to its return: translates the history and builds the request;
\* when the request cannot be encoded or built it returns a buffered, already
\* closed channel holding one error event, otherwise it starts the goroutine.
\* (encoding/json reports no error for the request as it is built today; the
\* branch is modelled as the code has it.)
Stream ==
  /\ pc = "idle"
  /\ ollamaMessages' = convertMessages(systemMessage, messages)
  /\ \E built \in {"ok", "marshal", "request"} :
       IF built = "ok"
         THEN /\ pc' = "do"
              /\ UNCHANGED <<chanBuf, chanClosed>>
         ELSE /\ chanBuf' = IF built = "marshal"
                              THEN <<EventError("failed to marshal request: unsupported value")>>
                              ELSE <<EventError("failed to create request: parse error")>>
              /\ chanClosed' = TRUE
              /\ pc' = "done"
  /\ UNCHANGED <<pending, after, cur, fullContent, pos, status, respBody, backendVars, received, envVars>>
  /\ UNCHANGED <<messages, systemMessage, sendIn, sendOut>>

\* Send on a channel with room: the goroutine goes on without the consumer.
Send_NoWait(ev, then) ==
  /\ pc' = "sent"
  /\ pending' = ev
  /\ after' = then

\* eventChan <- ev; the goroutine blocks until the consumer receives.
Send(ev, then) ==
  /\ pc' = "send"
  /\ pending' = ev
  /\ after' = then

\* Do without the status check.
Do_NoStatusCheck ==
  /\ pc = "do"
  /\ \/ /\ cancelled
        /\ Send(EventError("failed to send request: context canceled"), "return")
        /\ UNCHANGED <<status, respBody>>
     \/ /\ ~cancelled
        /\ Send(EventError("failed to send request: connection refused"), "return")
        /\ UNCHANGED <<status, respBody>>
     \/ /\ ~cancelled
        /\ \E s \in Statuses :
             /\ status' = s
             /\ respBody' = "open"
             /\ pc' = "read"
        /\ UNCHANGED <<pending, after>>
  /\ UNCHANGED <<cur, fullContent, pos, chanBuf, chanClosed, backendVars, received, envVars, callVars>>

\* o.client.Do(req) and the status check.
Do ==
  /\ pc = "do"
  /\ \/ /\ cancelled
        /\ Send(EventError("failed to send request: context canceled"), "return")
        /\ UNCHANGED <<status, respBody>>
     \/ /\ ~cancelled
        /\ Send(EventError("failed to send request: connection refused"), "return")
        /\ UNCHANGED <<status, respBody>>
     \/ /\ ~cancelled
        /\ \E s \in Statuses :
             /\ status' = s
             /\ respBody' = "open"
             /\ IF s # StatusOK
                  THEN pc' = "readall"
                  ELSE pc' = "read"
        /\ UNCHANGED <<pending, after>>
  /\ UNCHANGED <<cur, fullContent, pos, chanBuf, chanClosed, backendVars, received, envVars, callVars>>

RECURSIVE Concat(_)
\* The bytes of a sequence of lines.
Concat(lines) == IF lines = <<>> THEN "" ELSE Head(lines) \o Concat(Tail(lines))

\* body, _ := io.ReadAll(resp.Body) on a non-OK status: returns what was
\* read when the body ends, fails or the context is cancelled; the error is
\* dropped.
ReadAll ==
  /\ pc = "readall"
  /\ ended # "open" \/ cancelled
  /\ Send(EventError("ollama API error: " \o Concat(body) \o partial), "return")
  /\ UNCHANGED <<cur, fullContent, pos, status, respBody, chanBuf, chanClosed, backendVars, received, envVars, callVars>>

\* The rest of a loop iteration once the delta, if any, is out: the done check.
CheckDone(resp, content) ==
  IF resp.Done
    THEN Send(EventComplete(content, resp.PromptTokens, resp.CompletionTokens), "return")
    ELSE /\ pc' = "read"
         /\ UNCHANGED <<pending, after>>

\* ProcessLine with the accumulated text, not the increment, as the delta.
ProcessLine_CumulativeDelta(line) ==
  LET r == Unmarshal(line) IN
  IF Len(line) = 0
    THEN /\ pc' = "read"
         /\ UNCHANGED <<pending, after, cur, fullContent>>
  ELSE IF ~r.ok
    THEN /\ Send(EventError("failed to unmarshal response: invalid JSON"), "return")
         /\ UNCHANGED <<cur, fullContent>>
  ELSE IF r.resp.Error # ""
    THEN /\ Send(EventError("ollama API error: " \o r.resp.Error), "return")
         /\ UNCHANGED <<cur, fullContent>>
  ELSE IF r.resp.Content # ""
    THEN /\ Send(EventContentDelta(fullContent \o r.resp.Content), "checkdone")
         /\ cur' = r.resp
         /\ UNCHANGED fullContent
  ELSE /\ CheckDone(r.resp, fullContent)
       /\ cur' = r.resp
       /\ UNCHANGED fullContent

\* ProcessLine with the delta sent before the error string is looked at.
ProcessLine_DeltaBeforeError(line) ==
  LET r == Unmarshal(line) IN
  IF Len(line) = 0
    THEN /\ pc' = "read"
         /\ UNCHANGED <<pending, after, cur, fullContent>>
  ELSE IF ~r.ok
    THEN /\ Send(EventError("failed to unmarshal response: invalid JSON"), "return")
         /\ UNCHANGED <<cur, fullContent>>
  ELSE IF r.resp.Content # ""
    THEN /\ Send(EventContentDelta(r.resp.Content), "checkdone")
         /\ cur' = r.resp
         /\ UNCHANGED fullContent
  ELSE IF r.resp.Error # ""
    THEN /\ Send(EventError("ollama API error: " \o r.resp.Error), "return")
         /\ UNCHANGED <<cur, fullContent>>
  ELSE /\ CheckDone(r.resp, fullContent)
       /\ cur' = r.resp
       /\ UNCHANGED fullContent

\* One loop iteration from a line ReadBytes returned without error.
ProcessLine(line) ==
  LET r == Unmarshal(line) IN
  IF Len(line) = 0
    THEN /\ pc' = "read"
         /\ UNCHANGED <<pending, after, cur, fullContent>>
  ELSE IF ~r.ok
    THEN /\ Send(EventError("failed to unmarshal response: invalid JSON"), "return")
         /\ UNCHANGED <<cur, fullContent>>
  ELSE IF r.resp.Error # ""
    THEN /\ Send(EventError("ollama API error: " \o r.resp.Error), "return")
         /\ UNCHANGED <<cur, fullContent>>
  ELSE IF r.resp.Content # ""
    THEN /\ Send(EventContentDelta(r.resp.Content), "checkdone")
         /\ cur' = r.resp
         /\ UNCHANGED fullContent
  ELSE /\ CheckDone(r.resp, fullContent)
       /\ cur' = r.resp
       /\ UNCHANGED fullContent

\* ReadBytes with io.EOF reported like any other read error.
ReadBytes_EOFIsError ==
  /\ pc = "read"
  /\ \/ /\ pos < Len(body)
        /\ pos' = pos + 1
        /\ ProcessLine(body[pos + 1])
     \/ /\ pos = Len(body) /\ ended \in {"eof", "err"}
        /\ Send(EventError("error reading stream: connection reset"), "return")
        /\ UNCHANGED <<cur, fullContent, pos>>
     \/ /\ cancelled
        /\ Send(EventError("error reading stream: context canceled"), "return")
        /\ UNCHANGED <<cur, fullContent, pos>>
  /\ UNCHANGED <<status, respBody, chanBuf, chanClosed, backendVars, received, envVars, callVars>>

\* ReadBytes on a body whose reads a cancelled context does not fail.
ReadBytes_IgnoresCancel ==
  /\ pc = "read"
  /\ \/ /\ pos < Len(body)
        /\ pos' = pos + 1
        /\ ProcessLine(body[pos + 1])
     \/ /\ pos = Len(body) /\ ended = "eof"
        /\ Send(EventComplete(fullContent, 0, 0), "return")
        /\ UNCHANGED <<cur, fullContent, pos>>
     \/ /\ pos = Len(body) /\ ended = "err"
        /\ Send(EventError("error reading stream: connection reset"), "return")
        /\ UNCHANGED <<cur, fullContent, pos>>
  /\ UNCHANGED <<status, respBody, chanBuf, chanClosed, backendVars, received, envVars, callVars>>

\* ReadBytes with a loop that ends silently on io.EOF.
ReadBytes_SilentEOF ==
  /\ pc = "read"
  /\ \/ /\ pos < Len(body)
        /\ pos' = pos + 1
        /\ ProcessLine(body[pos + 1])
     \/ /\ pos = Len(body) /\ ended = "eof"
        /\ pc' = "exit"
        /\ UNCHANGED <<pending, after, cur, fullContent, pos>>
     \/ /\ pos = Len(body) /\ ended = "err"
        /\ Send(EventError("error reading stream: connection reset"), "return")
        /\ UNCHANGED <<cur, fullContent, pos>>
     \/ /\ cancelled
        /\ Send(EventError("error reading stream: context canceled"), "return")
        /\ UNCHANGED <<cur, fullContent, pos>>
  /\ UNCHANGED <<status, respBody, chanBuf, chanClosed, backendVars, received, envVars, callVars>>

\* line, err := reader.ReadBytes('\n') and the iteration it starts.  A line
\* already delivered is returned (the bufio.Reader may hold it even after the
\* context is cancelled); at the end of the body ReadBytes returns the bytes
\* after the last newline together with io.EOF or the transport error; a
\* cancelled context fails the read.
ReadBytes ==
  /\ pc = "read"
  /\ \/ /\ pos < Len(body)
        /\ pos' = pos + 1
        /\ ProcessLine(body[pos + 1])
     \/ /\ pos = Len(body) /\ ended = "eof"
        /\ Send(EventComplete(fullContent, 0, 0), "return")
        /\ UNCHANGED <<cur, fullContent, pos>>
     \/ /\ pos = Len(body) /\ ended = "err"
        /\ Send(EventError("error reading stream: connection reset"), "return")
        /\ UNCHANGED <<cur, fullContent, pos>>
     \/ /\ cancelled
        /\ Send(EventError("error reading stream: context canceled"), "return")
        /\ UNCHANGED <<cur, fullContent, pos>>
  /\ UNCHANGED <<status, respBody, chanBuf, chanClosed, backendVars, received, envVars, callVars>>

\* Resume with a loop that goes on reading after a terminal event.
Resume_LoopsAfterTerminal ==
  /\ pc = "sent"
  /\ IF after = "checkdone"
       THEN /\ fullContent' = fullContent \o cur.Content
            /\ CheckDone(cur, fullContent')
       ELSE /\ pc' = "read"
            /\ UNCHANGED <<pending, after, fullContent>>
  /\ UNCHANGED <<cur, pos, status, respBody, chanBuf, chanClosed, backendVars, received, envVars, callVars>>

\* Resume without the append to fullContent.
Resume_NoAccumulate ==
  /\ pc = "sent"
  /\ IF after = "checkdone"
       THEN /\ fullContent' = fullContent
            /\ CheckDone(cur, fullContent')
       ELSE /\ pc' = "exit"
            /\ UNCHANGED <<pending, after, fullContent>>
  /\ UNCHANGED <<cur, pos, status, respBody, chanBuf, chanClosed, backendVars, received, envVars, callVars>>

\* The goroutine continues after the consumer took the event.
Resume ==
  /\ pc = "sent"
  /\ IF after = "checkdone"
       THEN /\ fullContent' = fullContent \o cur.Content
            /\ CheckDone(cur, fullContent')
       ELSE /\ pc' = "exit"
            /\ UNCHANGED <<pending, after, fullContent>>
  /\ UNCHANGED <<cur, pos, status, respBody, chanBuf, chanClosed, backendVars, received, envVars, callVars>>

\* Return without the deferred resp.Body.Close().
Return_LeaksBody ==
  /\ pc = "exit"
  /\ respBody' = respBody
  /\ chanClosed' = TRUE
  /\ pc' = "done"
  /\ UNCHANGED <<pending, after, cur, fullContent, pos, status, chanBuf, backendVars, received, envVars, callVars>>

\* The goroutine returns: the deferred resp.Body.Close(), when a response
\* exists, then the deferred close(eventChan).
Return ==
  /\ pc = "exit"
  /\ respBody' = IF respBody = "open" THEN "closed" ELSE respBody
  /\ chanClosed' = TRUE
  /\ pc' = "done"
  /\ UNCHANGED <<pending, after, cur, fullContent, pos, status, chanBuf, backendVars, received, envVars, callVars>>

(***************************************************************************)
(* The consumer and the call context                                       *)
(***************************************************************************)

\* The consumer receives from a buffered channel.
RecvBuffered ==
  /\ ~stopped /\ chanBuf # <<>>
  /\ received' = Append(received, Head(chanBuf))
  /\ chanBuf' = Tail(chanBuf)
  /\ UNCHANGED <<pc, pending, after, cur, fullContent, pos, status, respBody, chanClosed, backendVars, envVars, callVars>>

\* The consumer receives from the unbuffered channel: it meets the sender.
Recv ==
  /\ ~stopped /\ pc = "send"
  /\ received' = Append(received, pending)
  /\ pc' = "sent"
  /\ UNCHANGED <<pending, after, cur, fullContent, pos, status, respBody, chanBuf, chanClosed, backendVars, envVars, callVars>>

\* What the goroutine is doing at the moment the context is cancelled.
Activity ==
  CASE pc = "idle" -> "before"
    [] pc = "do" -> "dispatch"
    [] pc \in {"read", "readall"} /\ pos = Len(body) /\ ended = "open" -> "blockedread"
    [] pc = "send" -> "blockedsend"
    [] OTHER -> "running"

\* The caller cancels ctx.
Cancel ==
  /\ ~cancelled /\ pc # "done"
  /\ cancelled' = TRUE
  /\ cancelAt' = Activity
  /\ UNCHANGED <<taskVars, backendVars, received, stopped, callVars>>

\* The consumer, holding the channel stream() returned and having cancelled,
\* stops receiving.
StopReceiving ==
  /\ cancelled /\ ~stopped /\ pc \notin {"idle", "done"}
  /\ stopped' = TRUE
  /\ UNCHANGED <<taskVars, backendVars, received, cancelled, cancelAt, callVars>>

(***************************************************************************)
(* Specifications                                                          *)
(***************************************************************************)

Task == Do \/ ReadAll \/ ReadBytes \/ Resume \/ Return

Next ==
  \/ SendSync
  \/ Stream
  \/ Do
  \/ ReadAll
  \/ ReadBytes
  \/ Resume
  \/ Return
  \/ BackendWriteLine
  \/ BackendWritePartial
  \/ BackendEnd
  \/ RecvBuffered
  \/ Recv
  \/ Cancel
  \/ StopReceiving

Spec == Init /\ [][Next]_vars

\* The Go scheduler runs a runnable goroutine; a consumer that has not
\* stopped keeps receiving.  Nothing obliges the backend to write or the
\* caller to cancel.
FairSpec ==
  /\ Spec
  /\ WF_vars(Stream)
  /\ WF_vars(Task)
  /\ WF_vars(Recv)
  /\ WF_vars(RecvBuffered)

\* A backend whose body is finite: it ends, cleanly or not, unless the
\* connection is torn down first.
FiniteFairSpec == FairSpec /\ WF_vars(BackendEnd)

\* The Message Translator alone, on every history within the bound.
ConvNext == ConvertMessages

ConvSpec == ConvInit /\ [][ConvNext]_vars

(***************************************************************************)
(* Observations used by the properties                                     *)
(***************************************************************************)

\* The event the goroutine is blocked sending, if any.
InFlight == IF pc = "send" THEN <<pending>> ELSE <<>>

\* Every event sent on eventChan so far, in order: received, buffered or
\* being sent.
Emitted == received \o chanBuf \o InFlight

\* The lines the read loop has taken from the reader.
Consumed == SubSeq(body, 1, pos)

\* A line that decodes to a fragment without an error string.
GoodLine(line) == Unmarshal(line).ok /\ Unmarshal(line).resp.Error = ""

RECURSIVE DeltaContents(_)
\* The contents, in order, of the good lines with non-empty content.
DeltaContents(lines) ==
  IF lines = <<>> THEN <<>>
  ELSE (IF GoodLine(Head(lines)) /\ Unmarshal(Head(lines)).resp.Content # ""
          THEN <<Unmarshal(Head(lines)).resp.Content>> ELSE <<>>)
       \o DeltaContents(Tail(lines))

RECURSIVE DeltasIn(_)
\* The payloads, in order, of the content-delta events of a sequence.
DeltasIn(events) ==
  IF events = <<>> THEN <<>>
  ELSE (IF Head(events).Type = "content_delta" THEN <<Head(events).Content>> ELSE <<>>)
       \o DeltasIn(Tail(events))

\* The events of a sequence whose type is in a set.
OfType(events, types) == {i \in 1..Len(events) : events[i].Type \in types}

(***************************************************************************)
(* C1                                                                      *)
(***************************************************************************)

\* C1: in every streaming call at most one terminal event (complete or
\* error) is sent, no event is sent after it, and once the channel is closed
\* and drained a terminal event the consumer received is the last it received.
C1_SingleTerminalLast ==
  /\ \A i \in 1..Len(Emitted) : IsTerminal(Emitted[i]) => i = Len(Emitted)
  /\ Cardinality(OfType(Emitted, {"complete", "error"})) <= 1
  /\ chanClosed /\ chanBuf = <<>> =>
       \A i \in 1..Len(received) : IsTerminal(received[i]) => i = Len(received)

C1_Witness ==
  /\ chanClosed
  /\ Len(received) = 3
  /\ IsTerminal(received[3])
  /\ ~IsTerminal(received[1]) /\ ~IsTerminal(received[2])

(***************************************************************************)
(* C2                                                                      *)
(***************************************************************************)

\* C2: the Content of every complete event equals the concatenation, in
\* emission order, of the payloads of the content-delta events emitted
\* before it (the empty string when there is none).
C2_CompleteIsConcatOfDeltas ==
  \A i \in 1..Len(Emitted) :
    Emitted[i].Type = "complete" =>
      Emitted[i].Content = Concat(DeltasIn(SubSeq(Emitted, 1, i - 1)))

C2_Witness ==
  /\ chanClosed
  /\ received = <<EventContentDelta("b"), EventContentDelta("a"), EventComplete("ba", 3, 1)>>

(***************************************************************************)
(* C3                                                                      *)
(***************************************************************************)

\* C3: the delta payloads emitted are exactly the contents of the good
\* lines with non-empty content the loop has taken, one delta per line, in
\* the backend's order, each carrying that line's content alone; and a
\* complete event sent for a done fragment carries that fragment's usage
\* counters and follows the fragment's own delta.
C3_DeltasInDeliveryOrder ==
  /\ DeltasIn(Emitted) = DeltaContents(Consumed)
  /\ \A i \in 1..Len(Emitted) :
       (/\ Emitted[i].Type = "complete"
        /\ pos > 0 /\ GoodLine(body[pos]) /\ Unmarshal(body[pos]).resp.Done) =>
         LET resp == Unmarshal(body[pos]).resp IN
         /\ Emitted[i].InputTokens = resp.PromptTokens
         /\ Emitted[i].OutputTokens = resp.CompletionTokens
         /\ resp.Content # "" => (i > 1 /\ Emitted[i - 1] = EventContentDelta(resp.Content))

C3_Witness ==
  /\ chanClosed
  /\ body = <<FragEmpty \o "\n", FragADone \o "\n">>
  /\ received = <<EventContentDelta("a"), EventComplete("a", 3, 1)>>

(***************************************************************************)
(* C4                                                                      *)
(***************************************************************************)

\* C4: when the body reaches end-of-stream after newline-terminated,
\* well-formed, error-free fragments none of which is done, the call ends
\* with the deltas of those fragments followed by exactly one complete
\* event holding the accumulated content, zero usage and finish reason
\* end-of-turn, and no error event.
C4_EndOfStreamCompletes ==
  (/\ chanClosed /\ status = StatusOK /\ ended = "eof" /\ partial = "" /\ ~cancelled
   /\ \A i \in 1..Len(body) : GoodLine(body[i]) /\ ~Unmarshal(body[i]).resp.Done) =>
    /\ Len(received) = Len(DeltaContents(body)) + 1
    /\ DeltasIn(received) = DeltaContents(body)
    /\ received[Len(received)] = [NoEvent EXCEPT !.Type = "complete",
                                                 !.Content = Concat(DeltaContents(body)),
                                                 !.FinishReason = "end_turn"]
    /\ OfType(received, {"error"}) = {}

C4_Witness ==
  /\ chanClosed /\ status = StatusOK /\ ended = "eof" /\ partial = "" /\ ~cancelled
  /\ body = <<FragA \o "\n", FragB \o "\n">>
  /\ Len(received) = 3

(***************************************************************************)
(* C5                                                                      *)
(***************************************************************************)

\* The loop takes a blank line (only the delimiter) from the reader.
TakesBlankLine == pc = "read" /\ pos' = pos + 1 /\ body[pos + 1] = Blank \o "\n"

\* C5: a blank keep-alive line is skipped without changing state: the step
\* that takes it sends no event, accumulates nothing and goes back to
\* reading.
C5_BlankLineSkipped ==
  [][TakesBlankLine => (pc' = "read" /\ pending' = pending /\ fullContent' = fullContent)]_vars

(***************************************************************************)
(* C6                                                                      *)
(***************************************************************************)

\* C6: a final well-formed, error-free fragment that the body ends on
\* without a newline is honoured: when the call ends after reading the whole
\* body, the fragment's content is part of the complete event's content.
C6_UnterminatedFragmentHonoured ==
  (/\ chanClosed /\ status = StatusOK /\ ended = "eof" /\ ~cancelled
   /\ \A i \in 1..Len(body) : GoodLine(body[i]) /\ ~Unmarshal(body[i]).resp.Done
   /\ GoodLine(partial)) =>
    LET last == received[Len(received)] IN
    /\ last.Type = "complete"
    /\ last.Content = Concat(DeltaContents(Append(body, partial)))
    /\ DeltasIn(received) = DeltaContents(Append(body, partial))
    /\ Unmarshal(partial).resp.Done =>
         /\ last.InputTokens = Unmarshal(partial).resp.PromptTokens
         /\ last.OutputTokens = Unmarshal(partial).resp.CompletionTokens

(***************************************************************************)
(* C7                                                                      *)
(***************************************************************************)

\* The loop took a line that is not JSON or carries an error string.
HitBadLine == pos > 0 /\ ~GoodLine(body[pos])

\* The loop took every line, none bad or done, and the body then failed.
HitReadError ==
  /\ pos = Len(body) /\ ended = "err"
  /\ \A i \in 1..Len(body) : GoodLine(body[i]) /\ ~Unmarshal(body[i]).resp.Done

\* C7: a call that ran into a read failure, a line that is not valid JSON
\* or a fragment with an error string ends with the deltas of the good
\* lines before the failure, unchanged and in order, followed by exactly one
\* error event; there is no complete event and no delta for the failing
\* fragment.
C7_FailureEndsWithOneError ==
  (chanClosed /\ status = StatusOK /\ (HitBadLine \/ HitReadError)) =>
    LET good == IF HitBadLine THEN SubSeq(body, 1, pos - 1) ELSE body IN
    /\ Len(received) = Len(DeltaContents(good)) + 1
    /\ DeltasIn(received) = DeltaContents(good)
    /\ received[Len(received)].Type = "error"
    /\ Cardinality(OfType(received, {"error"})) = 1
    /\ OfType(received, {"complete"}) = {}

C7_Witness ==
  /\ chanClosed /\ status = StatusOK
  /\ body = <<FragA \o "\n", FragErr \o "\n">>
  /\ received = <<EventContentDelta("a"), EventError("ollama API error: boom")>>

(***************************************************************************)
(* C8                                                                      *)
(***************************************************************************)

\* A response exists and its status is not a 2xx one.
NonSuccess == status # 0 /\ status \notin 200..299

\* C8: on a non-success status the call sends one event in total, an error
\* event carrying the body text read, and closes the channel after it: no
\* delta and no complete event, whatever the body holds.
C8_NonSuccessOneError ==
  NonSuccess =>
    /\ Emitted \in {<<>>, <<EventError("ollama API error: " \o Concat(body) \o partial)>>}
    /\ chanClosed => Len(received) = 1

C8_Witness ==
  /\ chanClosed /\ status = 500
  /\ body = <<FragA \o "\n", FragDone \o "\n">>
  /\ received = <<EventError("ollama API error: " \o FragA \o "\n" \o FragDone \o "\n")>>

(***************************************************************************)
(* C9                                                                      *)
(***************************************************************************)

\* The context was cancelled while the goroutine was blocked reading the
\* body or dispatching the request.
CancelledInRead == cancelAt \in {"dispatch", "blockedread"}

\* The call is over and the last event the consumer got is an error event.
ClosedWithError ==
  chanClosed /\ received # <<>> /\ received[Len(received)].Type = "error"

\* C9: a call cancelled while its goroutine is blocked reading the body or
\* dispatching the request never sends a complete event and, as long as the
\* consumer keeps receiving, ends with an error event as the last event
\* followed by the closure of the channel.
C9_CancelUnblocksRead ==
  /\ [](CancelledInRead => OfType(Emitted, {"complete"}) = {})
  /\ [](CancelledInRead => <>(stopped \/ ClosedWithError))

C9_Witness ==
  /\ cancelAt = "blockedread" /\ ~stopped /\ status = StatusOK
  /\ ClosedWithError
  /\ received = <<EventContentDelta("a"), EventError("error reading stream: context canceled")>>

(***************************************************************************)
(* C10                                                                     *)
(***************************************************************************)

\* C10: once the context is cancelled the goroutine exits, whatever it was
\* doing: the channel gets closed and the response body released.
C10_TaskExitsAfterCancel ==
  cancelled ~> (pc = "done" /\ chanClosed /\ respBody # "open")

(***************************************************************************)
(* C11                                                                     *)
(***************************************************************************)

\* C11: a call has a response body exactly when it obtained a response (a
\* failed dispatch has none and closes none); the body is closed once, by
\* the step that ends the goroutine, on every branch that ends it, so it is
\* closed whenever the channel is; and the goroutine never reads from it
\* after closing it.
C11_BodyClosedOnce ==
  /\ []((respBody = "none") <=> (status = 0))
  /\ [](chanClosed /\ status # 0 => respBody = "closed")
  /\ [](respBody = "closed" => pc = "done")
  /\ [][/\ respBody = "closed" => respBody' = "closed"
        /\ respBody' = "closed" /\ respBody # "closed" => respBody = "open" /\ pc = "exit"
        /\ respBody = "none" => respBody' \in {"none", "open"}]_vars

C11_Witness ==
  /\ chanClosed /\ respBody = "closed" /\ status = StatusOK
  /\ body = <<Garbage \o "\n">>
  /\ received = <<EventError("failed to unmarshal response: invalid JSON")>>

(***************************************************************************)
(* C12                                                                     *)
(***************************************************************************)

\* C12: the goroutine holds at most one event the consumer has not
\* received, and it takes the next line from the body only after the
\* consumer received every event of the lines before it.
C12_BackPressure ==
  /\ Len(Emitted) <= Len(received) + 1
  /\ pc = "read" => DeltasIn(received) = DeltaContents(Consumed)
  /\ pos > 0 => Len(DeltasIn(received)) >= Len(DeltaContents(SubSeq(body, 1, pos - 1)))

C12_Witness ==
  /\ pc = "send" /\ pending = EventContentDelta("b")
  /\ received = <<EventContentDelta("a")>>
  /\ pos = 2 /\ Len(body) = 2 /\ ~cancelled

(***************************************************************************)
(* C13                                                                     *)
(***************************************************************************)

\* The synchronous call got a response and read its body to the end.
GotBody == pc = "returned" /\ sendIn.doOK /\ sendIn.readOK

\* C13: a synchronous call whose body decodes to a response with a
\* non-empty error field returns a nil response and an error, whatever the
\* content, done flag and usage of the response; when the status let the
\* body be decoded the error carries that error string.
C13_ErrorFieldFails ==
  (GotBody /\ Unmarshal(sendIn.body).ok /\ Unmarshal(sendIn.body).resp.Error # "") =>
    /\ sendOut.Response = NilResponse
    /\ sendOut.Err # ""
    /\ sendIn.status = StatusOK => sendOut.Err = "ollama API error: " \o Unmarshal(sendIn.body).resp.Error

C13_Witness ==
  /\ GotBody /\ sendIn.status = StatusOK /\ sendIn.body = FragErrDone
  /\ sendOut = [Response |-> NilResponse, Err |-> "ollama API error: boom"]

(***************************************************************************)
(* C14                                                                     *)
(***************************************************************************)

\* C14: a synchronous call returns either a response or an error, never
\* both and never neither; and for a 200 response whose body decodes to a
\* fragment without error string it returns the fragment's content, its
\* prompt tokens as input, its completion tokens as output and the finish
\* reason end-of-turn.
C14_SendNormalizes ==
  pc = "returned" =>
    /\ sendOut.Response.Nil <=> sendOut.Err # ""
    /\ (GotBody /\ sendIn.status = StatusOK /\ GoodLine(sendIn.body)) =>
         LET resp == Unmarshal(sendIn.body).resp IN
         /\ sendOut.Err = ""
         /\ sendOut.Response = [Nil |-> FALSE, Content |-> resp.Content,
                                InputTokens |-> resp.PromptTokens,
                                OutputTokens |-> resp.CompletionTokens,
                                FinishReason |-> "end_turn"]

C14_Witness ==
  /\ GotBody /\ sendIn.status = StatusOK /\ sendIn.body = FragADone
  /\ sendOut = [Response |-> [Nil |-> FALSE, Content |-> "a", InputTokens |-> 3, OutputTokens |-> 1,
                              FinishReason |-> "end_turn"],
                Err |-> ""]

(***************************************************************************)
(* C15 - C18: the Message Translator                                       *)
(***************************************************************************)

\* The Wire Turns each turn of the bounded set is to produce, written out.
ExpectedTurns(m) ==
  CASE m = UserHi -> <<[Role |-> "user", Content |-> "hi"]>>
    [] m = AssistantText -> <<[Role |-> "assistant", Content |-> "ok"]>>
    [] m = AssistantCalls ->
         <<[Role |-> "assistant",
            Content |-> "I need to use the following tools:\n- Tool: ls\n  Arguments: {\"path\":\".\"}\n- Tool: cat\n  Arguments: {\"file\":\"x\"}\n"]>>
    [] m = AssistantBoth ->
         <<[Role |-> "assistant", Content |-> "ok"],
           [Role |-> "assistant",
            Content |-> "I need to use the following tools:\n- Tool: cat\n  Arguments: {\"file\":\"x\"}\n"]>>
    [] m = ToolTwo -> <<[Role |-> "user", Content |-> "Tool result for call_1: x y"],
                        [Role |-> "user", Content |-> "Tool result for call_2: hello"]>>
    [] OTHER -> <<>>

RECURSIVE ExpectedWire(_)
\* The expected turns of a history, turn after turn.
ExpectedWire(msgs) ==
  IF msgs = <<>> THEN <<>> ELSE ExpectedTurns(Head(msgs)) \o ExpectedWire(Tail(msgs))

\* The positions of the Wire Turns with a role.
WithRole(wire, role) == {i \in 1..Len(wire) : wire[i].Role = role}

RECURSIVE WithoutUnrecognized(_)
\* A history without the turns whose role the translator has no case for.
WithoutUnrecognized(msgs) ==
  IF msgs = <<>> THEN <<>>
  ELSE (IF Head(msgs).Role \in {"user", "assistant", "tool"} THEN <<Head(msgs)>> ELSE <<>>)
       \o WithoutUnrecognized(Tail(msgs))

\* The translated turns after the system turn, if there is one.
AfterSystem == IF systemMessage # "" THEN Tail(ollamaMessages) ELSE ollamaMessages

\* C15: the system message is the Wire Turn at index 0 exactly when it is
\* non-empty, and no other Wire Turn has the system role, wherever system
\* turns stand in the history.
C15_SystemTurnFirstOnly ==
  pc = "converted" =>
    /\ systemMessage # "" =>
         ollamaMessages # <<>> /\ ollamaMessages[1] = [Role |-> "system", Content |-> systemMessage]
    /\ WithRole(ollamaMessages, "system") = IF systemMessage # "" THEN {1} ELSE {}

C15_Witness ==
  /\ pc = "converted" /\ systemMessage # ""
  /\ messages = <<UserHi, SystemTurn>>
  /\ Len(ollamaMessages) = 2

RECURSIVE AssistantWireCount(_)
\* One Wire Turn for a non-empty text plus one for some tool calls, summed
\* over the assistant turns of a history.
AssistantWireCount(msgs) ==
  IF msgs = <<>> THEN 0
  ELSE (IF Head(msgs).Role = "assistant" /\ Head(msgs).Text # "" THEN 1 ELSE 0)
       + (IF Head(msgs).Role = "assistant" /\ Len(Head(msgs).ToolCalls) > 0 THEN 1 ELSE 0)
       + AssistantWireCount(Tail(msgs))

\* C16: an assistant turn produces one assistant Wire Turn if its text is
\* non-empty plus one if it has tool calls, the text first; a turn with no
\* text and several tool calls produces the single synthesized turn, which
\* lists every tool in request order.
C16_AssistantTurns ==
  pc = "converted" =>
    /\ Cardinality(WithRole(ollamaMessages, "assistant")) = AssistantWireCount(messages)
    /\ (Len(messages) = 1 /\ messages[1].Role = "assistant") =>
         AfterSystem = ExpectedTurns(messages[1])

C16_Witness ==
  /\ pc = "converted" /\ systemMessage = ""
  /\ messages = <<AssistantCalls>>
  /\ Len(ollamaMessages) = 1

\* C17: a tool-result turn with N results produces N user Wire Turns, in
\* the order of the results, each holding its result's call identifier and
\* content; and no Wire Turn has a role other than system, user, assistant.
C17_ToolResultsAsUserTurns ==
  pc = "converted" =>
    /\ \A i \in 1..Len(ollamaMessages) : ollamaMessages[i].Role \in {"system", "user", "assistant"}
    /\ (Len(messages) = 1 /\ messages[1].Role = "tool") =>
         /\ Len(AfterSystem) = Len(messages[1].ToolResults)
         /\ AfterSystem = ExpectedTurns(messages[1])

C17_Witness ==
  /\ pc = "converted" /\ systemMessage = ""
  /\ messages = <<ToolTwo>>
  /\ Len(ollamaMessages) = 2

\* C18: the output is the system turn, if any, followed by the turns of
\* each history turn in history order; so it splits at every point of the
\* history into the translation of what is before and of what is after,
\* and the turns with an unrecognized role can be dropped from the history
\* without changing it.
C18_OrderPreserved ==
  pc = "converted" =>
    /\ AfterSystem = ExpectedWire(messages)
    /\ \A k \in 0..Len(messages) :
         ollamaMessages = convertMessages(systemMessage, SubSeq(messages, 1, k))
                          \o convertMessages("", SubSeq(messages, k + 1, Len(messages)))
    /\ ollamaMessages = convertMessages(systemMessage, WithoutUnrecognized(messages))

C18_Witness ==
  /\ pc = "converted" /\ systemMessage # ""
  /\ messages = <<AssistantBoth, OtherTurn>>
  /\ Len(ollamaMessages) = 3

(***************************************************************************)
(* C19                                                                     *)
(***************************************************************************)

\* A streaming call was made.
Streaming == pc \notin {"idle", "converted", "returned"}

\* The channel is closed and the consumer has everything that was sent.
Drained == chanClosed /\ chanBuf = <<>> /\ pc = "done"

\* The call failed before its goroutine was started.
FailedEarly ==
  /\ Emitted # <<>>
  /\ Emitted[1].Error \in {"failed to marshal request: unsupported value",
                           "failed to create request: parse error"}

\* C19: a streaming call whose backend body is finite and whose consumer
\* keeps receiving ends with its channel closed and drained; the channel is
\* closed once; the consumer has then received exactly one terminal event,
\* as the last event; and a call that could not encode or build its request
\* sent that one error event only and dispatched nothing.
C19_ClosesWithOneTerminal ==
  /\ [](Streaming => <>(stopped \/ Drained))
  /\ [](Drained => /\ Cardinality(OfType(received, {"complete", "error"})) = 1
                   /\ IsTerminal(received[Len(received)]))
  /\ [](FailedEarly => Len(Emitted) = 1 /\ status = 0 /\ respBody = "none" /\ pc = "done")
  /\ [][chanClosed => chanClosed']_vars

C19_Witness ==
  /\ Drained /\ ~stopped /\ ~cancelled /\ status = 0
  /\ received = <<EventError("failed to create request: parse error")>>

(***************************************************************************)
(* C20                                                                     *)
(***************************************************************************)

\* C20: in both modes a response is a backend HTTP failure, reported with
\* the raw body text, exactly when its status is not a 2xx one; a 2xx
\* response is decoded.
C20_FailureIffNon2xx ==
  /\ GotBody =>
       ((sendIn.status \notin 200..299) <=> (sendOut = Failure("ollama API error: " \o sendIn.body)))
  /\ (Drained /\ status # 0) =>
       (NonSuccess <=> (received = <<EventError("ollama API error: " \o Concat(body) \o partial)>>))

====
